---- MODULE Spec2Model ----
(***************************************************************************)
(* The dashboard front-end of forexBot: src/static/js/charts.js (the chart *)
(* poller and closeTrade) and the script of src/templates/dashboard.html.  *)
(*                                                                         *)
(* The page modelled is one whose markup provides the #performanceChart    *)
(* canvas, so that the Chart construction of charts.js:3-24 succeeds.      *)
(* JavaScript is single-threaded: each action below is one run-to-         *)
(* completion task (an event handler, a timer callback, or the promise     *)
(* chain of one settled fetch).  response.json() and the .then handler     *)
(* that follows it touch no shared state in between, so the chain of one   *)
(* response is one action.                                                 *)
(***************************************************************************)
EXTENDS Integers, Sequences, FiniteSets, TLC

VARIABLES
    loaded,            \* the DOMContentLoaded handler of charts.js has run
    now,               \* ms since page load, as of the latest timer event
    timers,            \* the timers the page has armed and not cleared
    issued,            \* number of fetch('/api/performance') calls made
    inflight,          \* /api/performance requests whose promise is pending
    performanceChart,  \* data.labels, data.datasets[0].data, update() calls
    lastPoll,          \* how the most recently settled poll chain ended
    failRun,           \* settled polls rejected in a row, up to now
    closeSent,         \* number of POST /api/close_trade/<id> sent
    closePending,      \* close_trade requests whose promise is pending
    confirms,          \* answers given to the confirm() dialog so far
    alerts,            \* number of alert('Failed to close trade') shown
    reloads,           \* number of location.reload() calls
    lastClose,         \* what the latest close_trade response chain did
    testBound,         \* the click handler of #testTradingBtn is attached
    testBtnDisabled,   \* #testTradingBtn.disabled
    testResults,       \* #testResults.innerHTML
    testSent,          \* number of POST /api/test_trading sent
    testPending,       \* test_trading requests whose promise is pending
    lastTest,          \* how the latest settled test_trading request ended
    rendered           \* the latest part of dashboard.html the server rendered

vars == <<loaded, now, timers, issued, inflight, performanceChart, lastPoll,
          failRun, closeSent, closePending, confirms, alerts, reloads,
          lastClose, testBound, testBtnDisabled, testResults, testSent,
          testPending, lastTest, rendered>>

pollVars == <<loaded, now, timers, issued, inflight, performanceChart,
              lastPoll, failRun>>

closeVars == <<closeSent, closePending, confirms, alerts, reloads, lastClose>>

testVars == <<testBound, testBtnDisabled, testResults, testSent, testPending,
              lastTest>>

----------------------------------------------------------------------------
(* Bounds of the model *)

\* fetches of /api/performance issued per page load
MaxPolls == 5

\* clicks on a Close button
MaxCloseClicks == 3

\* clicks on the Test Trading Operations button
MaxTestClicks == 6

\* open trades handed to the template
MaxTrades == 2

----------------------------------------------------------------------------
(* Program constants *)

\* setInterval(updateChartData, 300000)
POLL_PERIOD == 300000

\* the trade ids the template renders a Close button for
TradeIds == {"t1", "t2"}

----------------------------------------------------------------------------
(* JSON values, as far as the handlers look into them *)

\* what a property read such as data.dates yields
Shapes == {"array", "scalar", "undefined"}

\* A settled fetch, by kind: the network failed ("neterr": fetch rejects),
\* the body is not JSON ("nonjson": response.json() rejects), the body is
\* the JSON value null ("null"), or it is any other JSON value ("value"),
\* whose .dates and .balances read as given (a primitive or an array reads
\* "undefined" for both).  The HTTP status is not part of it: fetch
\* resolves on 4xx/5xx and the code never reads response.ok.
NoValue(k) == [kind |-> k, dates |-> "undefined", balances |-> "undefined"]

PerfBodies ==
    {[kind |-> "value", dates |-> d, balances |-> b] : d \in Shapes, b \in Shapes}

PerfOutcomes == {NoValue("neterr"), NoValue("nonjson"), NoValue("null")} \cup PerfBodies

\* new Chart(ctx, { data: { labels: [], datasets: [{ data: [] }] } })
\* A value is <<shape, id of the response it came from>>; 0 is the literal [].
NewChart ==
    [labels |-> <<"array", 0>>, data |-> <<"array", 0>>, updates |-> 0]

NoChart == [labels |-> <<"undefined", 0>>, data |-> <<"undefined", 0>>, updates |-> 0]

\* <div id="testResults" class="mt-2 small"></div> as first rendered.
\* The content is its kind, the text interpolated into it, and the number
\* of the request whose handler wrote it (0: none).
EmptyResults == [kind |-> "empty", text |-> "", req |-> 0]

\* A settled POST /api/test_trading without a value to read, by kind
NoTest(k) ==
    [kind |-> k, success |-> "falsy", message |-> "undefined", error |-> "undefined"]

\* Nothing of the template has been rendered yet
NotRendered == [part |-> "none"]

----------------------------------------------------------------------------
(* charts.js: the chart poller *)

\* The id the browser gives the next timer armed
NextTimerId(tm) == Cardinality(tm) + 1

\* setInterval(updateChartData, 300000) at time t
SetInterval(tm, t) ==
    tm \cup {[id |-> NextTimerId(tm), kind |-> "interval",
              delay |-> POLL_PERIOD, due |-> t + POLL_PERIOD]}

\* updateChartData as it would be if it armed its own next run as well
updateChartData_Rearm(fl, n, tm, t) ==
    [inflight |-> fl \cup {[id |-> n + 1, at |-> t]},
     issued   |-> n + 1,
     timers   |-> SetInterval(tm, t)]

\* updateChartData as it would be with a guard that skips the fetch while
\* an earlier one is pending
updateChartData_SkipWhilePending(fl, n, tm, t) ==
    IF fl # {} THEN [inflight |-> fl, issued |-> n, timers |-> tm]
    ELSE [inflight |-> {[id |-> n + 1, at |-> t]}, issued |-> n + 1, timers |-> tm]

\* updateChartData(): fetch('/api/performance') is called and its promise is
\* pending; the function arms and clears no timer.
updateChartData(fl, n, tm, t) ==
    [inflight |-> fl \cup {[id |-> n + 1, at |-> t]},
     issued   |-> n + 1,
     timers   |-> tm]

\* The handler as it would be if it assigned the labels only
ThenData_LabelsOnly(chart, body, id) ==
    [labels  |-> <<body.dates, id>>,
     data    |-> chart.data,
     updates |-> chart.updates + 1]

\* .then(data => { labels = data.dates; datasets[0].data = data.balances;
\*                 update(); }) for the data of response id
ThenData(chart, body, id) ==
    [labels  |-> <<body.dates, id>>,
     data    |-> <<body.balances, id>>,
     updates |-> chart.updates + 1]

\* Whether the promise chain of a settled fetch rejects: fetch rejects,
\* response.json() rejects, or data.dates throws a TypeError on null.
\* The chain has no .catch.
Rejects(o) == o.kind \in {"neterr", "nonjson", "null"}

\* The chain as it would be with a .catch that empties the chart
ChartAfter_ClearOnError(chart, o, id) ==
    IF Rejects(o)
    THEN [labels |-> <<"array", 0>>, data |-> <<"array", 0>>,
          updates |-> chart.updates + 1]
    ELSE ThenData(chart, o, id)

\* The chart after the chain of response id has run
ChartAfter(chart, o, id) ==
    IF Rejects(o) THEN chart ELSE ThenData(chart, o, id)

\* The chain as it would be with a .catch that calls updateChartData again
\* at once, however often the poll has failed
ChainSchedule_RetryAtOnce(o, fl, n, tm, t) ==
    IF Rejects(o) THEN updateChartData(fl, n, tm, t)
    ELSE [inflight |-> fl, issued |-> n, timers |-> tm]

\* The chain as it would be with a .catch that clears the interval
ChainSchedule_StopOnError(o, fl, n, tm, t) ==
    [inflight |-> fl, issued |-> n, timers |-> IF Rejects(o) THEN {} ELSE tm]

\* What the chain of a settled poll leaves of the pending requests fl, the
\* fetch count n and the timers tm at time t: whether it fulfils or rejects,
\* it calls fetch no more, and arms and clears no timer.
ChainSchedule(o, fl, n, tm, t) ==
    [inflight |-> fl, issued |-> n, timers |-> tm]

\* The canvases charts.js binds a Chart to
Registry == {"performanceChart"}

\* The poll status the page shows: updateChartData and its chain write no
\* badge, banner or other element, and dashboard.html holds none for it.
PollStatusShown == "none"

Init ==
    /\ loaded = FALSE
    /\ now = 0
    /\ timers = {}
    /\ issued = 0
    /\ inflight = {}
    /\ performanceChart = NoChart
    /\ lastPoll = "none"
    /\ failRun = 0
    /\ closeSent = 0
    /\ closePending = {}
    /\ confirms = [accepted |-> 0, declined |-> 0]
    /\ alerts = 0
    /\ reloads = 0
    /\ lastClose = [kind |-> "none", success |-> "falsy", did |-> "nothing"]
    /\ testBound = FALSE
    /\ testBtnDisabled = FALSE
    /\ testResults = EmptyResults
    /\ testSent = 0
    /\ testPending = {}
    /\ lastTest = NoTest("none")
    /\ rendered = NotRendered

\* document.addEventListener('DOMContentLoaded', ...): build the chart, call
\* updateChartData() once, arm the interval.
DOMContentLoaded ==
    /\ ~loaded
    /\ loaded' = TRUE
    /\ performanceChart' = NewChart
    /\ LET u == updateChartData(inflight, issued, timers, now)
       IN  /\ inflight' = u.inflight
           /\ issued' = u.issued
           /\ timers' = SetInterval(u.timers, now)
    /\ UNCHANGED <<now, lastPoll, failRun>>
    /\ UNCHANGED <<closeVars, testVars, rendered>>

\* The earliest timer comes due: its callback updateChartData runs and the
\* interval stays armed for one period later.
TimerFire ==
    /\ loaded
    /\ issued < MaxPolls
    /\ \E t \in timers :
        /\ \A o \in timers : t.due <= o.due
        /\ now' = t.due
        /\ LET u == updateChartData(inflight, issued,
                        (timers \ {t}) \cup {[t EXCEPT !.due = t.due + t.delay]},
                        t.due)
           IN  /\ inflight' = u.inflight
               /\ issued' = u.issued
               /\ timers' = u.timers
    /\ UNCHANGED <<loaded, performanceChart, lastPoll, failRun>>
    /\ UNCHANGED <<closeVars, testVars, rendered>>

\* One pending /api/performance request settles, in any order, with any
\* outcome, and its promise chain runs.
PollSettle ==
    /\ \E r \in inflight, o \in PerfOutcomes :
        /\ performanceChart' = ChartAfter(performanceChart, o, r.id)
        /\ LET a == ChainSchedule(o, inflight \ {r}, issued, timers, now)
           IN  /\ inflight' = a.inflight
               /\ issued' = a.issued
               /\ timers' = a.timers
        /\ lastPoll' = IF Rejects(o) THEN "rejected" ELSE "fulfilled"
        /\ failRun' = IF Rejects(o) THEN failRun + 1 ELSE 0
    /\ UNCHANGED <<loaded, now>>
    /\ UNCHANGED <<closeVars, testVars, rendered>>

PollNext == DOMContentLoaded \/ TimerFire \/ PollSettle

PollSpec == Init /\ [][PollNext]_vars

----------------------------------------------------------------------------
(* charts.js: closeTrade *)

\* What the handler reads of a close_trade response: data.success
Truthiness == {"truthy", "falsy"}

\* A settled POST /api/close_trade/<id>, by kind as for the poll; a "value"
\* carries how its .success reads (absent reads undefined, which is falsy).
NoClose(k) == [kind |-> k, success |-> "falsy"]

CloseOutcomes ==
    {NoClose("neterr"), NoClose("nonjson"), NoClose("null")}
        \cup {[kind |-> "value", success |-> s] : s \in Truthiness}

\* closeTrade as it would be without the confirm() test
closeTrade_NoConfirm(pending, n, tradeId, accept) ==
    pending \cup {[n |-> n + 1, trade |-> tradeId]}

\* if (confirm('Are you sure you want to close this trade?')) fetch(...)
\* The requests pending after closeTrade(tradeId), answered `accept`.
closeTrade(pending, n, tradeId, accept) ==
    IF accept THEN pending \cup {[n |-> n + 1, trade |-> tradeId]} ELSE pending

\* .then(response => response.json()).then(data => { if (data.success)
\*   location.reload(); else alert('Failed to close trade'); })
\* What the chain of a settled close request does: "reload", "alert", or
\* "nothing" when the chain rejects (fetch rejects, json() rejects, or
\* data.success throws a TypeError on null; there is no .catch).
CloseEffect(o) ==
    IF o.kind # "value" THEN "nothing"
    ELSE IF o.success = "truthy" THEN "reload"
    ELSE "alert"

\* A click on the Close button of a rendered trade: onclick="closeTrade(id)";
\* the user answers the confirm() dialog.
CloseClick ==
    /\ confirms.accepted + confirms.declined < MaxCloseClicks
    /\ \E tradeId \in TradeIds, accept \in BOOLEAN :
        /\ closePending' = closeTrade(closePending, closeSent, tradeId, accept)
        /\ closeSent' = closeSent + Cardinality(closePending' \ closePending)
        /\ confirms' = IF accept
                        THEN [confirms EXCEPT !.accepted = @ + 1]
                        ELSE [confirms EXCEPT !.declined = @ + 1]
    /\ UNCHANGED <<alerts, reloads, lastClose>>
    /\ UNCHANGED <<pollVars, testVars, rendered>>

\* One pending close_trade request settles and its promise chain runs.
\* location.reload() replaces the document: its timers, pending callbacks
\* and chart are gone and the new document starts before DOMContentLoaded.
CloseSettle ==
    /\ \E r \in closePending, o \in CloseOutcomes :
        LET did == CloseEffect(o) IN
        /\ lastClose' = [kind |-> o.kind, success |-> o.success, did |-> did]
        /\ alerts' = IF did = "alert" THEN alerts + 1 ELSE alerts
        /\ reloads' = IF did = "reload" THEN reloads + 1 ELSE reloads
        /\ IF did = "reload"
           THEN /\ closePending' = {}
                /\ loaded' = FALSE
                /\ now' = 0
                /\ timers' = {}
                /\ issued' = 0
                /\ inflight' = {}
                /\ performanceChart' = NoChart
                /\ lastPoll' = "none"
                /\ failRun' = 0
                /\ testBound' = FALSE
                /\ testBtnDisabled' = FALSE
                /\ testResults' = EmptyResults
                /\ testPending' = {}
                /\ UNCHANGED <<testSent, lastTest>>
           ELSE /\ closePending' = closePending \ {r}
                /\ UNCHANGED <<pollVars, testVars>>
    /\ UNCHANGED <<closeSent, confirms, rendered>>

CloseNext == CloseClick \/ CloseSettle

CloseSpec == Init /\ [][CloseNext]_vars

----------------------------------------------------------------------------
(* dashboard.html: the Test Trading Operations button *)

\* How data.message and data.error read: a text, or undefined when absent
Texts == {"text", "undefined"}

\* A settled POST /api/test_trading, by kind as for the poll; a "value"
\* carries how its .success, .message and .error read.
TestOutcomes ==
    {NoTest("neterr"), NoTest("nonjson"), NoTest("null")}
        \cup {[kind |-> "value", success |-> s, message |-> m, error |-> e] :
                 s \in Truthiness, m \in Texts, e \in Texts}

\* The click handler as it would be if it left the results area as it was
Spinner_KeepsPrevious(n) == testResults

\* this.disabled = true; resultsDiv.innerHTML = '<div class="spinner-border
\* ..."></div> Testing trading operations...' for request n
Spinner(n) == [kind |-> "spinner", text |-> "", req |-> n]

\* The chain as it would be if its .catch did not enable the button again
TestChain_CatchLeavesDisabled(o, n) ==
    IF o.kind \in {"neterr", "nonjson"}
    THEN [disabled |-> TRUE, results |-> [kind |-> "network", text |-> "", req |-> n]]
    ELSE IF o.kind = "null"
    THEN [disabled |-> FALSE, results |-> [kind |-> "network", text |-> "", req |-> n]]
    ELSE IF o.success = "truthy"
    THEN [disabled |-> FALSE, results |-> [kind |-> "success", text |-> o.message, req |-> n]]
    ELSE [disabled |-> FALSE, results |-> [kind |-> "error", text |-> o.error, req |-> n]]

\* The chain as it would be if it tested data.message instead of
\* data.success
TestChain_TestsMessage(o, n) ==
    IF o.kind # "value"
    THEN [disabled |-> FALSE, results |-> [kind |-> "network", text |-> "", req |-> n]]
    ELSE IF o.message = "text"
    THEN [disabled |-> FALSE, results |-> [kind |-> "success", text |-> o.message, req |-> n]]
    ELSE [disabled |-> FALSE, results |-> [kind |-> "error", text |-> o.error, req |-> n]]

\* .then(response => response.json())
\* .then(data => { this.disabled = false;
\*                 if (data.success) innerHTML = success(data.message)
\*                 else innerHTML = danger(data.error) })
\* .catch(error => { this.disabled = false; innerHTML = 'Test failed:
\*                   Network error' })
\* The button and the results area after the chain of request n has run.
\* The .catch runs when fetch rejects, when response.json() rejects, and
\* when data.success throws a TypeError on null.
TestChain(o, n) ==
    IF o.kind # "value"
    THEN [disabled |-> FALSE, results |-> [kind |-> "network", text |-> "", req |-> n]]
    ELSE IF o.success = "truthy"
    THEN [disabled |-> FALSE, results |-> [kind |-> "success", text |-> o.message, req |-> n]]
    ELSE [disabled |-> FALSE, results |-> [kind |-> "error", text |-> o.error, req |-> n]]

\* The DOMContentLoaded listener of dashboard.html attaches the click
\* handler to #testTradingBtn.
DashboardLoaded ==
    /\ ~testBound
    /\ testBound' = TRUE
    /\ UNCHANGED <<testBtnDisabled, testResults, testSent, testPending, lastTest>>
    /\ UNCHANGED <<pollVars, closeVars, rendered>>

\* A click on #testTradingBtn; a disabled button dispatches no click.
TestClick ==
    /\ testBound
    /\ ~testBtnDisabled
    /\ testSent < MaxTestClicks
    /\ testBtnDisabled' = TRUE
    /\ testResults' = Spinner(testSent + 1)
    /\ testSent' = testSent + 1
    /\ testPending' = testPending \cup {testSent + 1}
    /\ UNCHANGED <<testBound, lastTest>>
    /\ UNCHANGED <<pollVars, closeVars, rendered>>

\* One pending test_trading request settles and its promise chain runs.
TestSettle ==
    /\ \E n \in testPending, o \in TestOutcomes :
        LET c == TestChain(o, n) IN
        /\ testPending' = testPending \ {n}
        /\ testBtnDisabled' = c.disabled
        /\ testResults' = c.results
        /\ lastTest' = o
    /\ UNCHANGED <<testBound, testSent>>
    /\ UNCHANGED <<pollVars, closeVars, rendered>>

TestNext == DashboardLoaded \/ TestClick \/ TestSettle

TestSpec == Init /\ [][TestNext]_vars

\* The browser settles every fetch in the end (a response, or a network
\* error or timeout), and runs the promise chain of a settled fetch.
TestFairSpec == TestSpec /\ WF_vars(TestSettle)

----------------------------------------------------------------------------
(* dashboard.html: what the server renders *)

\* Indicator values are in units of 0.00001; an indicator the backend does
\* not supply is Absent (Jinja reads it as undefined).
Absent == [has |-> FALSE, v |-> 0]

Num(n) == [has |-> TRUE, v |-> n]

\* {% if x %} / (... if x else ...): undefined, None and 0 are false
Truthy(x) == x.has /\ x.v # 0

Judged == {"Prediction", "Trend_Strength", "RSI", "Volatility", "ATR_Ratio"}

Unjudged == {"Current_Price", "EMA", "SMA"}

Indicators == Judged \cup Unjudged

\* The values drawn for each indicator: absent, 0, and the values next to
\* the template's thresholds
ValuesOf(ind) ==
    CASE ind = "Prediction"     -> {Absent, Num(0), Num(29999), Num(30000), Num(30001),
                                    Num(70000), Num(70001)}
      [] ind = "Trend_Strength" -> {Absent, Num(0), Num(60000), Num(60001)}
      [] ind = "RSI"            -> {Absent, Num(0), Num(3000000), Num(3000001),
                                    Num(6999999), Num(7000000)}
      [] ind = "Volatility"     -> {Absent, Num(0), Num(199), Num(200)}
      [] ind = "ATR_Ratio"      -> {Absent, Num(0), Num(149999), Num(150000)}
      [] OTHER                  -> {Absent, Num(112345)}

\* The decimals of the cell's "%.Nf"
Digits(ind) ==
    CASE ind \in {"Prediction", "Trend_Strength"} -> 3
      [] ind \in {"RSI", "ATR_Ratio"} -> 2
      [] OTHER -> 5

\* "%.Nf"|format(x|float): n units of 0.00001 rounded to d decimals, in
\* units of the last decimal shown (no value drawn lies on a tie)
Format(d, n) ==
    LET step == 10 ^ (5 - d) IN
    IF n >= 0 THEN (2 * n + step) \div (2 * step)
    ELSE 0 - ((2 * (0 - n) + step) \div (2 * step))

\* The inner {% if %} of a judged cell
PassTest(ind, n) ==
    CASE ind = "Prediction"     -> n > 70000 \/ n < 30000
      [] ind = "Trend_Strength" -> n > 60000
      [] ind = "RSI"            -> n > 3000000 /\ n < 7000000
      [] ind = "Volatility"     -> n < 200
      [] ind = "ATR_Ratio"      -> n < 150000
      [] OTHER                  -> FALSE

\* One <td> of a signals row: the formatted number or 'N/A', and for a
\* judged indicator whose value is true the pass or the fail mark
Cell(ind, x) ==
    [text |-> IF Truthy(x) THEN <<"number", Digits(ind), Format(Digits(ind), x.v)>>
              ELSE <<"N/A", 0, 0>>,
     mark |-> IF ind \in Judged /\ Truthy(x)
              THEN (IF PassTest(ind, x.v) THEN "pass" ELSE "fail")
              ELSE "none"]

\* What api_error can be: None, or the text of an error
ApiErrors == {"none", "msg"}

\* The lists of open trades handed to the template
RECURSIVE SeqsUpTo(_, _)
SeqsUpTo(S, n) ==
    IF n = 0 THEN {<<>>}
    ELSE LET shorter == SeqsUpTo(S, n - 1)
         IN  shorter \cup {Append(q, x) : q \in shorter, x \in S}

\* The card as it would be if the template tested api_error before trades
TradesCard_ErrorFirst(trades, apiError) ==
    IF apiError # "none" THEN [table |-> <<>>, alert |-> "unable"]
    ELSE IF trades # <<>>
    THEN [table |-> [i \in 1..Len(trades) |-> [trade |-> trades[i], close |-> trades[i]]],
          alert |-> "none"]
    ELSE [table |-> <<>>, alert |-> "notrades"]

\* {% if trades %} table: a row and a Close button per trade
\* {% else %} the info alert, its text by {% if api_error %} {% endif %}
TradesCard(trades, apiError) ==
    IF trades # <<>>
    THEN [table |-> [i \in 1..Len(trades) |-> [trade |-> trades[i], close |-> trades[i]]],
          alert |-> "none"]
    ELSE [table |-> <<>>,
          alert |-> IF apiError # "none" THEN "unable" ELSE "notrades"]

\* {% if api_error %} the 'Connection Status: Offline' banner
Banner(apiError) == apiError # "none"

\* The indicators of one pair, as the backend may supply them
SignalContexts ==
    {[Prediction |-> p, Trend_Strength |-> t, RSI |-> r, Volatility |-> v,
      ATR_Ratio |-> a, Current_Price |-> c, EMA |-> e, SMA |-> m] :
        p \in ValuesOf("Prediction"), t \in ValuesOf("Trend_Strength"),
        r \in ValuesOf("RSI"), v \in ValuesOf("Volatility"),
        a \in ValuesOf("ATR_Ratio"), c \in ValuesOf("Current_Price"),
        e \in ValuesOf("EMA"), m \in ValuesOf("SMA")}

\* The server renders the page once per load.  The signals table and the
\* Open Trades card read different parts of the context, so each is
\* rendered by an action of its own.
\* The signals table: the row of one pair (the rows of a table do not depend
\* on each other), or the 'No trading signals available' row when
\* trading_signals.pairs is empty.
RenderSignals ==
    /\ rendered = NotRendered
    /\ \/ rendered' = [part |-> "nosignals"]
       \/ \E ctx \in SignalContexts :
            rendered' = [part |-> "signals", indicators |-> ctx,
                         cells |-> [i \in Indicators |-> Cell(i, ctx[i])]]
    /\ UNCHANGED <<pollVars, closeVars, testVars>>

\* The server renders the api_error banner and the Open Trades card.
RenderTrades ==
    /\ rendered = NotRendered
    /\ \E trades \in SeqsUpTo(TradeIds, MaxTrades), apiError \in ApiErrors :
        rendered' = [part |-> "trades", trades |-> trades, api_error |-> apiError,
                     banner |-> Banner(apiError),
                     card |-> TradesCard(trades, apiError)]
    /\ UNCHANGED <<pollVars, closeVars, testVars>>

RenderNext == RenderSignals \/ RenderTrades

RenderSpec == Init /\ [][RenderNext]_vars

----------------------------------------------------------------------------
(* The whole page, in the browser *)

Next ==
    \/ DOMContentLoaded \/ TimerFire \/ PollSettle
    \/ CloseClick \/ CloseSettle
    \/ DashboardLoaded \/ TestClick \/ TestSettle

Spec == Init /\ [][Next]_vars

----------------------------------------------------------------------------
(* The claims *)

\* The delay the specification gives the n-th retry: 5s, doubled each time,
\* capped at 30s
RetryDelay(n) ==
    LET d == 5000 * (2 ^ (n - 1)) IN IF d > 30000 THEN 30000 ELSE d

\* A retry timer: any timer other than the periodic poll's
RetryTimers == {t \in timers : t.kind # "interval"}

\* Fetches beyond the one at load and one per elapsed period: every retry
\* attempt the page has made is one of them
RetryAttempts == IF loaded THEN issued - 1 - (now \div POLL_PERIOD) ELSE 0

\* C1: once a poll has failed and nothing is in flight, a retry is scheduled
\* whose delay is 5s after the 1st failure in a row, 10s after the 2nd and
\* 20s after the 3rd, and no retry delay exceeds 30s.
C1_RetryBackoff ==
    /\ (lastPoll = "rejected" /\ failRun \in 1..3 /\ inflight = {})
          => \E t \in RetryTimers : t.delay = RetryDelay(failRun)
    /\ \A t \in RetryTimers : t.delay <= 30000

\* C2: the page makes at most 3 retry attempts, in any run of failed polls.
C2_RetriesBounded == RetryAttempts \in 0..3

\* C2's case: four or more polls in a row have failed.
C2_Witness ==
    /\ lastPoll = "rejected"
    /\ failRun >= 4
    /\ RetryAttempts \in 0..3

\* C3: the page keeps polling, and after a poll and its 3 retries have
\* failed (4 failures in a row) the next failure starts a fresh backoff
\* sequence: a retry is scheduled 5s later.
C3_ResetAfterThreeRetries ==
    /\ loaded => \E t \in timers : t.kind = "interval"
    /\ (lastPoll = "rejected" /\ failRun = 5 /\ inflight = {})
          => \E t \in RetryTimers : t.delay = RetryDelay(1)

\* The shape check of the balance chart: dates and balances are arrays
ShapeOK(c) == c.labels[1] = "array" /\ c.data[1] = "array"

\* C4: the chart is mutated only with a payload that passed the shape
\* check, so its labels and data are arrays at all times.
C4_ChartOnlyValidPayload == loaded => ShapeOK(performanceChart)

\* C5: one fetch is issued at load and one more at every poll period
\* since, and the periodic timer stays armed for the next period, whatever
\* the earlier fetches came to.
C5_PollerKeepsRunning ==
    /\ ~loaded => issued = 0
    /\ loaded =>
         /\ issued = 1 + (now \div POLL_PERIOD)
         /\ \E t \in timers :
               /\ t.kind = "interval"
               /\ t.delay = POLL_PERIOD
               /\ t.due = now + POLL_PERIOD

\* C5's case: fetches went on after failures, some still unanswered.
C5_Witness ==
    /\ issued >= 4
    /\ failRun >= 2
    /\ inflight # {}
    /\ now = 3 * POLL_PERIOD

\* The four charts the specification names
FourCharts == {"performanceChart", "dailyPLChart", "winLossChart", "riskRadarChart"}

\* The response a chart shows the data of; 0 when it shows none
ChartSource(c) ==
    IF c \in Registry /\ c = "performanceChart" THEN performanceChart.labels[2] ELSE 0

\* C6: once a poll has refreshed the page, all four charts show the payload
\* of the same poll.
C6_AllFourChartsRefreshed ==
    performanceChart.updates > 0 =>
        \A c \in FourCharts :
            /\ c \in Registry
            /\ ChartSource(c) = ChartSource("performanceChart")

\* C7: the status shown reflects the latest settled poll: failure after a
\* failed poll, success after a successful one, never 'ok' after a failure.
C7_StatusReflectsPoll ==
    /\ lastPoll = "rejected" => PollStatusShown = "error"
    /\ lastPoll = "fulfilled" => PollStatusShown = "ok"

\* C8: at most one timer is pending, and it is the periodic poll timer.
C8_SingleTimer ==
    /\ Cardinality(timers) <= 1
    /\ RetryTimers = {}
    /\ loaded => Cardinality(timers) = 1

\* C8's case: the timer has fired through failures and successes.
C8_Witness ==
    /\ Cardinality(timers) = 1
    /\ issued >= 4
    /\ performanceChart.updates >= 1
    /\ lastPoll = "rejected"

\* C9: a close request is sent only in a step in which the user accepts
\* the dialog; a step in which the user declines sends nothing, reloads
\* nothing and shows no alert.
C9_SendOnlyWhenConfirmed ==
    [][ /\ closeSent' # closeSent =>
              /\ confirms'.accepted = confirms.accepted + 1
              /\ closeSent' = closeSent + 1
        /\ closePending' \ closePending # {} => closeSent' = closeSent + 1
        /\ confirms'.declined # confirms.declined =>
              UNCHANGED <<closeSent, closePending, alerts, reloads, lastClose>>
      ]_vars

\* C9's case: the user has declined once and accepted once.
C9_Witness ==
    /\ confirms.declined >= 1
    /\ confirms.accepted >= 1
    /\ closeSent = confirms.accepted

\* C10: for a response that parses as JSON, the page reloads exactly when
\* its success field is truthy, and shows the alert otherwise.
C10_ReloadIffSuccess ==
    lastClose.kind \in {"null", "value"} =>
        /\ lastClose.did = "reload" <=> lastClose.success = "truthy"
        /\ lastClose.did = "alert" <=> lastClose.success # "truthy"

\* C15: the k-th periodic fetch is issued exactly k periods after page load
\* (the fetch at load being the 0-th), and the timer is armed for the period
\* after the last one issued, whatever is still pending or has failed.
C15_FixedPeriod ==
    /\ \A r \in inflight : r.at = (r.id - 1) * POLL_PERIOD
    /\ loaded => \A t \in timers : t.due = issued * POLL_PERIOD

\* C15's case: the third periodic fetch was issued while an earlier fetch
\* is still pending and after polls have failed.
C15_Witness ==
    /\ \E r \in inflight : r.id = 4 /\ r.at = 3 * POLL_PERIOD
    /\ \E r \in inflight : r.id < 4
    /\ lastPoll = "rejected"

\* C16: a step in which a poll fails leaves the chart's labels and data as
\* they were and calls update() no more.
C16_FailedPollLeavesChart ==
    [][failRun' = failRun + 1 => performanceChart' = performanceChart]_vars

\* C16's case: a poll has failed while the chart shows an earlier payload.
C16_Witness ==
    /\ lastPoll = "rejected"
    /\ performanceChart.labels[2] >= 1
    /\ performanceChart.updates >= 1

\* C17: the chart's labels and its dataset values come from the same
\* response.
C17_LabelsAndDataTogether ==
    performanceChart.labels[2] = performanceChart.data[2]

\* C17's case: the chart shows a later response while an earlier request is
\* still pending, after more than one update.
C17_Witness ==
    /\ performanceChart.updates >= 2
    /\ performanceChart.labels[2] >= 2
    /\ \E r \in inflight : r.id < performanceChart.labels[2]

\* C18: at most one /api/performance request is in flight.
C18_OneRequestInFlight == Cardinality(inflight) <= 1

\* C19: no step replaces the payload the chart shows by that of a poll
\* issued earlier.
C19_ChartNeverGoesBack ==
    [][performanceChart'.labels[2] >= performanceChart.labels[2]]_vars

\* C20: every settled close request has ended in a reload or in the
\* 'Failed to close trade' alert.
C20_CloseAlwaysHasOutcome ==
    lastClose.kind # "none" => lastClose.did \in {"reload", "alert"}

\* C11: the button is disabled for as long as a test request is pending,
\* the step that settles a request enables it, and a disabled button is
\* enabled again in the end, whatever the outcome of the request.
C11_ButtonReenabled ==
    /\ [](testPending # {} => testBtnDisabled)
    /\ [][testPending' # testPending /\ testPending' = {} => ~testBtnDisabled']_vars
    /\ (testBtnDisabled ~> ~testBtnDisabled)

\* C11's case: a request ended in a network error or a body that is not
\* JSON, and the button is enabled.
C11_Witness ==
    /\ lastTest.kind \in {"neterr", "nonjson"}
    /\ testPending = {}
    /\ ~testBtnDisabled
    /\ testSent >= 2

\* C12: once a test request has settled, the results area shows the
\* success message exactly when the response's success is truthy, the
\* backend's error text when it is falsy, 'Test failed: Network error' when
\* the fetch was rejected or the body did not parse, and never the spinner.
C12_ResultsMatchOutcome ==
    (testPending = {} /\ lastTest.kind # "none") =>
        /\ testResults.kind # "spinner"
        /\ testResults.kind = "success"
              <=> (lastTest.kind = "value" /\ lastTest.success = "truthy")
        /\ testResults.kind = "success" => testResults.text = lastTest.message
        /\ (lastTest.kind = "value" /\ lastTest.success = "falsy")
              => (testResults.kind = "error" /\ testResults.text = lastTest.error)
        /\ lastTest.kind \in {"neterr", "nonjson"} => testResults.kind = "network"

\* C12's case: a response with falsy success that carries a message as
\* well as an error has settled.
C12_Witness ==
    /\ testPending = {}
    /\ lastTest.kind = "value"
    /\ lastTest.success = "falsy"
    /\ lastTest.message = "text"
    /\ lastTest.error = "text"
    /\ testResults.kind = "error"

\* The thresholds as the claim states them, in units of 0.00001
ClaimedPass(i, n) ==
    \/ i = "Prediction" /\ (n > 70000 \/ n < 30000)
    \/ i = "Trend_Strength" /\ n > 60000
    \/ i = "RSI" /\ 3000000 < n /\ n < 7000000
    \/ i = "Volatility" /\ n < 200
    \/ i = "ATR_Ratio" /\ n < 150000

\* C13: in a signals row every judged indicator the backend supplies gets
\* the pass mark exactly under its threshold (Prediction > 0.7 or < 0.3,
\* Trend_Strength > 0.6, 30 < RSI < 70, Volatility < 0.002, ATR_Ratio < 1.5)
\* and the fail mark otherwise; Current_Price, EMA and SMA get no mark.
C13_MarksFollowThresholds ==
    rendered.part = "signals" =>
        /\ \A i \in Judged :
              rendered.indicators[i].has =>
                  rendered.cells[i].mark =
                      IF ClaimedPass(i, rendered.indicators[i].v) THEN "pass" ELSE "fail"
        /\ \A i \in Unjudged : rendered.cells[i].mark = "none"

\* C14: the Open Trades card holds either the table, with one row and one
\* Close button per trade, or one info alert, never both and never
\* neither; the alert reads 'Unable to fetch...' exactly when api_error is
\* set; the Offline banner is shown exactly when api_error is set.
C14_TradesCard ==
    rendered.part = "trades" =>
        LET card == rendered.card IN
        /\ (card.table # <<>>) <=> (rendered.trades # <<>>)
        /\ (card.alert # "none") <=> (rendered.trades = <<>>)
        /\ Len(card.table) = Len(rendered.trades)
        /\ \A i \in 1..Len(card.table) : card.table[i].close = rendered.trades[i]
        /\ card.alert # "none" =>
              (card.alert = "unable" <=> rendered.api_error # "none")
        /\ card.alert \in {"none", "unable", "notrades"}
        /\ rendered.banner <=> rendered.api_error # "none"

\* C14's case: trades are listed while api_error is set.
C14_Witness ==
    /\ rendered.part = "trades"
    /\ Len(rendered.trades) = 2
    /\ rendered.api_error # "none"
    /\ rendered.banner
    /\ Len(rendered.card.table) = 2

\* C21: for every trade id, at most one close request is pending.
C21_OneCloseRequestPerTrade ==
    \A t \in TradeIds : Cardinality({r \in closePending : r.trade = t}) <= 1

\* C22: at most one test request is pending, and the button is disabled
\* exactly when one is.
C22_DisabledIffPending ==
    /\ Cardinality(testPending) <= 1
    /\ testBtnDisabled <=> testPending # {}

\* C22's case: a second request is pending after the first one settled
\* through the .catch handler.
C22_Witness ==
    /\ testSent >= 2
    /\ testPending = {testSent}
    /\ testBtnDisabled
    /\ lastTest.kind \in {"neterr", "nonjson", "null"}

\* C23: while a test request is pending the results area shows the spinner
\* of that request; otherwise it shows the result the latest request
\* settled with (or is empty before the first click); and only a click or
\* the chain of a settling request writes it.
C23_ResultsFollowRequest ==
    /\ [](testPending # {} =>
             /\ testResults.kind = "spinner"
             /\ testResults.req = testSent)
    /\ []((testPending = {} /\ testSent > 0) =>
             /\ testResults.req = testSent
             /\ testResults.kind \in {"success", "error", "network"})
    /\ [](testSent = 0 => testResults = EmptyResults)
    /\ [][testResults' # testResults =>
             \/ testSent' = testSent + 1
             \/ testPending' # testPending /\ testResults'.req \in testPending]_vars

\* C23's case: the spinner of a second request has replaced the result of
\* the first.
C23_Witness ==
    /\ testSent >= 2
    /\ testPending # {}
    /\ testResults.kind = "spinner"
    /\ lastTest.kind = "value"

\* C24: every indicator the backend supplies, 0 included, is rendered as a
\* formatted number, with the pass or the fail mark if it is a judged one;
\* 'N/A' and no mark appear only for an absent indicator.
C24_SuppliedValuesRendered ==
    rendered.part = "signals" =>
        \A i \in Indicators :
            /\ rendered.indicators[i].has =>
                  /\ rendered.cells[i].text[1] = "number"
                  /\ i \in Judged => rendered.cells[i].mark \in {"pass", "fail"}
            /\ rendered.cells[i].text[1] = "N/A" => ~rendered.indicators[i].has

====
